---- MODULE Spec2Model ----
(***************************************************************************)
(* A model of rookiedb's disk space manager: the bit primitive             *)
(* (common/bit.rs) and the partition allocator (io/partition.rs).          *)
(*                                                                         *)
(* Rust vectors are modelled as sequences; a Rust index i is position i+1. *)
(* Results are records [tag, val]: tag "Ok" carries val, any other tag is  *)
(* the error kind.  A panic is a separate flag: the process has aborted.   *)
(***************************************************************************)
EXTENDS Integers, Sequences, FiniteSets, TLC

(***************************************************************************)
(* Layout constants (common/constant.rs).  The page size is the bound of   *)
(* the model: MaxPageSize bytes stand for the 4096 of the build, and the   *)
(* other two constants follow from it as in the source.                    *)
(***************************************************************************)
MaxPageSize == 4

PAGE_SIZE == MaxPageSize

MAX_HEADER_PAGE == PAGE_SIZE \div 2

DATA_PAGES_PER_HEADER == PAGE_SIZE * 8

(***************************************************************************)
(* Results.                                                                *)
(***************************************************************************)
Ok(v) == [tag |-> "Ok", val |-> v]

Err(kind) == [tag |-> kind, val |-> 0]

IsOk(r) == r.tag = "Ok"

(***************************************************************************)
(* std::vec::Vec: get, insert (shifts the tail right, panics when the      *)
(* index is beyond the length) and with_capacity (length 0).               *)
(***************************************************************************)
VecHas(v, i) == i < Len(v)

VecAt(v, i) == v[i + 1]

VecInsertPanics(v, i) == i > Len(v)

VecInsert(v, i, x) == SubSeq(v, 1, i) \o <<x>> \o SubSeq(v, i + 1, Len(v))

VecWithCapacity(n) == << >>

(***************************************************************************)
(* common/bit.rs.  A byte is a number 0..255; bit 0 is the most            *)
(* significant bit.  Bit::Zero is 0 and Bit::One is 1.  A bit index is a    *)
(* u32; the largest u32 is scaled to MaxU32, above DATA_PAGES_PER_HEADER   *)
(* as in the code, and `as u32` keeps the low bits of a usize.             *)
(***************************************************************************)
MaxU32 == 39

U32_MAX == MaxU32

AsU32(x) == x % (U32_MAX + 1)

Pow2(k) == 2 ^ k

(* Bit 0 taken as the least significant bit. *)
get_bit_u8_lsb(v, i) ==
    IF i >= 8 THEN Err("IllegalArgument")
    ELSE Ok((v \div Pow2(i)) % 2)

get_bit_u8(v, i) ==
    IF i >= 8 THEN Err("IllegalArgument")
    ELSE Ok((v \div Pow2(7 - i)) % 2)

get_bit(v, i) ==
    IF Len(v) = 0 \/ i >= AsU32(Len(v) * 8) THEN Err("IllegalArgument")
    ELSE get_bit_u8(v[(i \div 8) + 1], i % 8)

set_bit_u8(v, i, bit) ==
    IF i >= 8 THEN Err("IllegalArgument")
    ELSE LET mask == Pow2(7 - i)
             has  == (v \div mask) % 2 = 1
         IN  IF bit = 0
             THEN Ok(IF has THEN v - mask ELSE v)
             ELSE Ok(IF has THEN v ELSE v + mask)

(* A count that leaves out the most significant bit. *)
count_ones_u8_low7(v) ==
    LET b(k) == (v \div Pow2(k)) % 2
    IN  b(0) + b(1) + b(2) + b(3) + b(4) + b(5) + b(6)

count_ones_u8(v) ==
    LET b(k) == (v \div Pow2(k)) % 2
    IN  b(0) + b(1) + b(2) + b(3) + b(4) + b(5) + b(6) + b(7)

(***************************************************************************)
(* count_ones sums the counts of the bytes in a u32: a sum beyond the      *)
(* largest u32 panics in a build with overflow checks and wraps in a build *)
(* without.  count_ones is the value of the wrapping build.                *)
(***************************************************************************)
RECURSIVE count_ones_sum(_)
count_ones_sum(v) ==
    IF Len(v) = 0 THEN 0 ELSE count_ones_u8(Head(v)) + count_ones_sum(Tail(v))

CountOverflows(v) == count_ones_sum(v) > U32_MAX

count_ones(v) == AsU32(count_ones_sum(v))

(***************************************************************************)
(* set_bit indexes the array unchecked: it is defined here for an index    *)
(* inside the array.  Every call the partition makes follows a successful  *)
(* get_bit at the same index, which is then inside the array.              *)
(***************************************************************************)
set_bit(v, i, bit) ==
    LET r == set_bit_u8(v[(i \div 8) + 1], i % 8, bit)
    IN  IF IsOk(r) THEN Ok([v EXCEPT ![(i \div 8) + 1] = r.val]) ELSE r

(***************************************************************************)
(* The backing file: a sequence of bytes.  A positioned write extends the  *)
(* file with zeros up to its offset; writing no bytes changes nothing.     *)
(***************************************************************************)
Zeros(n) == [k \in 1..n |-> 0]

WriteAt(d, buf, off) ==
    IF Len(buf) = 0 THEN d
    ELSE LET padded == IF Len(d) < off THEN d \o Zeros(off - Len(d)) ELSE d
             newlen == IF Len(padded) < off + Len(buf)
                       THEN off + Len(buf) ELSE Len(padded)
         IN  [k \in 1..newlen |->
                 IF k > off /\ k <= off + Len(buf) THEN buf[k - off]
                 ELSE padded[k]]

ReadAt(d, buf, off) ==
    [k \in 1..Len(buf) |-> IF off + k <= Len(d) THEN d[off + k] ELSE buf[k]]

(***************************************************************************)
(* Offsets (io/partition.rs).                                              *)
(***************************************************************************)
master_page_offset == 0

(* A layout that leaves no page for the header itself in each round. *)
header_page_offset_packed(header_index) ==
    (1 + DATA_PAGES_PER_HEADER * header_index) * PAGE_SIZE

header_page_offset(header_index) ==
    (1 + (DATA_PAGES_PER_HEADER + 1) * header_index) * PAGE_SIZE

(* A layout that counts no header page before the data page but the first. *)
data_page_offset_first_header(page_num) ==
    (1 + 1 + page_num) * PAGE_SIZE

data_page_offset(page_num) ==
    LET previous_headers == page_num \div DATA_PAGES_PER_HEADER
    IN  (1 + 1 + previous_headers + page_num) * PAGE_SIZE

(***************************************************************************)
(* State of one PartitionHandle and of its backing file.                   *)
(***************************************************************************)
VARIABLES file, disk, master_page, header_pages, panicked, call, ret,
          repeated, opened, allocated, buffer, page_io, nops, oob,
          lock_trace, hooks, dropped, byte_buffer, data_box, hash_frames, decoded

vars == <<file, disk, master_page, header_pages, panicked, call, ret,
          repeated, opened, allocated, buffer, page_io, nops, oob,
          lock_trace, hooks, dropped, byte_buffer, data_box, hash_frames,
          decoded>>

(***************************************************************************)
(* The two value objects next to the partition: one ByteBuffer as          *)
(* ByteBuffer::new leaves it (common/buffer.rs) and one DataBox            *)
(* (databox/data_types.rs).  A DataBox is its variant and the payload of   *)
(* the variant: b for Boolean, n for Integer and Long (and the bit pattern *)
(* of a Float), s for the bytes of a String or ByteArray.  hash_frames is  *)
(* the number of DataBox::hash frames on the stack, decoded the DataBox     *)
(* the last from_bytes returned.                                           *)
(***************************************************************************)
ByteBufferNew ==
    [data |-> << >>, w_pos |-> 0, r_pos |-> 0, w_bit |-> 0, r_bit |-> 0,
     endian |-> "Big"]

DataBoxOf(variant, b, n, s) == [variant |-> variant, b |-> b, n |-> n, s |-> s]

Null == DataBoxOf("Null", FALSE, 0, << >>)

NoValueObjects == UNCHANGED <<byte_buffer, data_box, hash_frames, decoded>>

(***************************************************************************)
(* write_master_page / write_header_page.  fail says whether the file      *)
(* system refuses the positioned write.  Each returns the new file         *)
(* contents and the Result.                                                *)
(***************************************************************************)
RECURSIVE PutU16s(_)
PutU16s(mp) ==
    IF Len(mp) = 0 THEN << >>
    ELSE <<Head(mp) \div 256, Head(mp) % 256>> \o PutU16s(Tail(mp))

write_master_page(mp, f, d, fail) ==
    LET buf == PutU16s(mp)
    IN  IF f = "None" THEN [disk |-> d, ret |-> Err("IOFailure")]
        ELSE IF fail THEN [disk |-> d, ret |-> Err("IOFailure")]
        ELSE [disk |-> WriteAt(d, buf, master_page_offset), ret |-> Ok(0)]

write_header_page(hp, header_index, f, d, fail) ==
    IF VecHas(hp, header_index)
    THEN IF f = "None" THEN [disk |-> d, ret |-> Err("IOFailure")]
         ELSE IF fail THEN [disk |-> d, ret |-> Err("IOFailure")]
         ELSE [disk |-> WriteAt(d, VecAt(hp, header_index),
                                header_page_offset(header_index)),
               ret |-> Ok(0)]
    ELSE [disk |-> d, ret |-> Ok(0)]

(***************************************************************************)
(* An operation's outcome: the handle's vectors, the file, the Result and  *)
(* whether the call panicked.                                              *)
(***************************************************************************)
Outcome(mp, hp, d, r) == [mp |-> mp, hp |-> hp, disk |-> d, ret |-> r, panic |-> FALSE]

Panic(mp, hp, d) == [mp |-> mp, hp |-> hp, disk |-> d, ret |-> Err("Panic"), panic |-> TRUE]

(***************************************************************************)
(* alloc_page_specific.  A missing header is inserted as                   *)
(* Vec::with_capacity(PAGE_SIZE); the insert panics beyond the length.     *)
(* io = <<master write fails, header write fails>>.                        *)
(***************************************************************************)
alloc_page_specific(mp, hp, f, d, header_index, page_index, io) ==
    IF ~VecHas(hp, header_index) /\ VecInsertPanics(hp, header_index)
    THEN Panic(mp, hp, d)
    ELSE
    LET hp1 == IF VecHas(hp, header_index) THEN hp
               ELSE VecInsert(hp, header_index, VecWithCapacity(PAGE_SIZE))
        header_content == VecAt(hp1, header_index)
        g == get_bit(header_content, AsU32(page_index))
    IN  IF ~IsOk(g) THEN Outcome(mp, hp1, d, g)
        ELSE IF g.val = 1 THEN Outcome(mp, hp1, d, Err("AlreadyAllocated"))
        ELSE
        LET s == set_bit(header_content, AsU32(page_index), 1)
        IN  IF ~IsOk(s) THEN Outcome(mp, hp1, d, s)
            ELSE
            LET hp2 == [hp1 EXCEPT ![header_index + 1] = s.val]
            IN  IF VecInsertPanics(mp, header_index) THEN Panic(mp, hp2, d)
                ELSE
                LET mp2 == VecInsert(mp, header_index, count_ones(s.val) % 65536)
                    page_num == page_index + header_index * DATA_PAGES_PER_HEADER
                    wm == write_master_page(mp2, f, d, io[1])
                    wh == write_header_page(hp2, header_index, f, wm.disk, io[2])
                IN  IF ~IsOk(wh.ret) THEN Outcome(mp2, hp2, wh.disk, wh.ret)
                    ELSE Outcome(mp2, hp2, wh.disk, Ok(page_num))

(***************************************************************************)
(* alloc_page: the first header whose master counter exists and is below   *)
(* DATA_PAGES_PER_HEADER, then the first zero bit of its bitmap.           *)
(***************************************************************************)
FreeHeaders(mp) ==
    {i \in 0..(MAX_HEADER_PAGE - 1) :
        VecHas(mp, i) /\ VecAt(mp, i) < DATA_PAGES_PER_HEADER}

Min(S) == CHOOSE x \in S : \A y \in S : x <= y

RECURSIVE FirstZeroBit(_, _)
FirstZeroBit(header_content, i) ==
    IF i = DATA_PAGES_PER_HEADER THEN Err("NoFreeBit")
    ELSE LET g == get_bit(header_content, AsU32(i))
         IN  IF ~IsOk(g) THEN g
             ELSE IF g.val = 0 THEN Ok(i)
             ELSE FirstZeroBit(header_content, i + 1)

alloc_page(mp, hp, f, d, io) ==
    IF FreeHeaders(mp) = {} THEN Outcome(mp, hp, d, Err("CapacityExceeded"))
    ELSE
    LET header_index == Min(FreeHeaders(mp))
        page_index == IF ~VecHas(hp, header_index) THEN Ok(0)
                      ELSE FirstZeroBit(VecAt(hp, header_index), 0)
    IN  IF ~IsOk(page_index) THEN Outcome(mp, hp, d, page_index)
        ELSE alloc_page_specific(mp, hp, f, d, header_index, page_index.val, io)

(***************************************************************************)
(* free_page.                                                              *)
(***************************************************************************)
free_page(mp, hp, f, d, page_num, io) ==
    LET header_index == page_num \div DATA_PAGES_PER_HEADER
        page_index == page_num % DATA_PAGES_PER_HEADER
    IN  IF ~VecHas(hp, header_index) THEN Outcome(mp, hp, d, Err("NotAllocated"))
        ELSE
        LET header_content == VecAt(hp, header_index)
            g == get_bit(header_content, AsU32(page_index))
        IN  IF ~IsOk(g) THEN Outcome(mp, hp, d, g)
            ELSE IF g.val = 0 THEN Outcome(mp, hp, d, Err("NotAllocated"))
            ELSE
            LET s == set_bit(header_content, AsU32(page_index), 0)
            IN  IF ~IsOk(s) THEN Outcome(mp, hp, d, s)
                ELSE
                LET hp2 == [hp EXCEPT ![header_index + 1] = s.val]
                IN  IF VecInsertPanics(mp, header_index) THEN Panic(mp, hp2, d)
                    ELSE
                    LET mp2 == VecInsert(mp, header_index, count_ones(s.val) % 65536)
                        wm == write_master_page(mp2, f, d, io[1])
                        wh == write_header_page(hp2, header_index, f, wm.disk, io[2])
                    IN  IF ~IsOk(wm.ret) THEN Outcome(mp2, hp2, wm.disk, wm.ret)
                        ELSE IF ~IsOk(wh.ret) THEN Outcome(mp2, hp2, wh.disk, wh.ret)
                        ELSE Outcome(mp2, hp2, wh.disk, Ok(0))

(***************************************************************************)
(* is_not_allocated_page: Ok(1) is true, Ok(0) is false.                   *)
(***************************************************************************)
is_not_allocated_page(mp, hp, page_num) ==
    LET header_index == page_num \div DATA_PAGES_PER_HEADER
        page_index == page_num % DATA_PAGES_PER_HEADER
    IN  IF header_index >= MAX_HEADER_PAGE THEN Ok(1)
        ELSE IF VecHas(mp, header_index) /\ VecAt(mp, header_index) = 0 THEN Ok(1)
        ELSE IF VecHas(hp, header_index)
             THEN LET g == get_bit(VecAt(hp, header_index), AsU32(page_index))
                  IN  IF ~IsOk(g) THEN g
                      ELSE Ok(IF g.val = 0 THEN 1 ELSE 0)
        ELSE Ok(0)


(***************************************************************************)
(* read_page / write_page.  fault names the file-system call that fails,   *)
(* if any.  Each returns the buffer or the file, the Result and the        *)
(* file-system calls made on the data page, in order.                      *)
(***************************************************************************)
Done(name) == <<name, TRUE>>

Failed(name) == <<name, FALSE>>

read_page(mp, hp, f, d, page_num, b, fault) ==
    LET q == is_not_allocated_page(mp, hp, page_num)
    IN  IF ~IsOk(q) THEN [buf |-> b, ret |-> q, io |-> << >>]
        ELSE IF q.val = 1 THEN [buf |-> b, ret |-> Err("NotAllocated"), io |-> << >>]
        ELSE IF f = "None" THEN [buf |-> b, ret |-> Err("IOFailure"), io |-> << >>]
        ELSE IF fault = "read"
             THEN [buf |-> b, ret |-> Err("IOFailure"), io |-> <<Failed("read_at")>>]
        ELSE [buf |-> ReadAt(d, b, data_page_offset(page_num)),
              ret |-> Ok(0), io |-> <<Done("read_at")>>]

(* write_page with the Result of sync_data dropped. *)
write_page_sync_unchecked(mp, hp, f, d, page_num, b, fault) ==
    LET q == is_not_allocated_page(mp, hp, page_num)
    IN  IF ~IsOk(q) THEN [disk |-> d, ret |-> q, io |-> << >>]
        ELSE IF q.val = 1 THEN [disk |-> d, ret |-> Err("NotAllocated"), io |-> << >>]
        ELSE IF f = "None" THEN [disk |-> d, ret |-> Err("IOFailure"), io |-> << >>]
        ELSE IF fault = "write"
             THEN [disk |-> d, ret |-> Err("IOFailure"), io |-> <<Failed("write_at")>>]
        ELSE LET d1 == WriteAt(d, b, data_page_offset(page_num))
             IN  IF fault = "sync"
                 THEN [disk |-> d1, ret |-> Ok(0),
                       io |-> <<Done("write_at"), Failed("sync_data")>>]
                 ELSE [disk |-> d1, ret |-> Ok(0),
                       io |-> <<Done("write_at"), Done("sync_data")>>]

write_page(mp, hp, f, d, page_num, b, fault) ==
    LET q == is_not_allocated_page(mp, hp, page_num)
    IN  IF ~IsOk(q) THEN [disk |-> d, ret |-> q, io |-> << >>]
        ELSE IF q.val = 1 THEN [disk |-> d, ret |-> Err("NotAllocated"), io |-> << >>]
        ELSE IF f = "None" THEN [disk |-> d, ret |-> Err("IOFailure"), io |-> << >>]
        ELSE IF fault = "write"
             THEN [disk |-> d, ret |-> Err("IOFailure"), io |-> <<Failed("write_at")>>]
        ELSE LET d1 == WriteAt(d, b, data_page_offset(page_num))
             IN  IF fault = "sync"
                 THEN [disk |-> d1, ret |-> Err("IOFailure"),
                       io |-> <<Done("write_at"), Failed("sync_data")>>]
                 ELSE [disk |-> d1, ret |-> Ok(0),
                       io |-> <<Done("write_at"), Done("sync_data")>>]

(***************************************************************************)
(* free_data_pages: collect every (header, index) whose bit is 1, then     *)
(* free each; the first error ends the call and keeps the frees done.      *)
(***************************************************************************)
RECURSIVE CollectBits(_, _, _, _)
CollectBits(header_content, i, j, v) ==
    IF j = DATA_PAGES_PER_HEADER THEN [ret |-> Ok(0), v |-> v]
    ELSE LET g == get_bit(header_content, AsU32(j))
         IN  IF ~IsOk(g) THEN [ret |-> g, v |-> v]
             ELSE CollectBits(header_content, i, j + 1,
                              IF g.val = 1 THEN Append(v, <<i, j>>) ELSE v)

RECURSIVE CollectPages(_, _, _, _)
CollectPages(mp, hp, i, v) ==
    IF i = MAX_HEADER_PAGE THEN [ret |-> Ok(0), v |-> v]
    ELSE IF VecHas(mp, i) /\ VecAt(mp, i) <= 0 THEN CollectPages(mp, hp, i + 1, v)
    ELSE IF ~VecHas(hp, i) THEN CollectPages(mp, hp, i + 1, v)
    ELSE LET c == CollectBits(VecAt(hp, i), i, 0, v)
         IN  IF ~IsOk(c.ret) THEN c
             ELSE CollectPages(mp, hp, i + 1, c.v)

RECURSIVE FreeEach(_, _, _, _, _, _)
FreeEach(v, mp, hp, f, d, io) ==
    IF Len(v) = 0 THEN Outcome(mp, hp, d, Ok(0))
    ELSE LET page_num == Head(v)[1] * DATA_PAGES_PER_HEADER + Head(v)[2]
             o == free_page(mp, hp, f, d, page_num, io)
         IN  IF o.panic \/ ~IsOk(o.ret) THEN o
             ELSE FreeEach(Tail(v), o.mp, o.hp, f, o.disk, io)

free_data_pages(mp, hp, f, d, io) ==
    LET c == CollectPages(mp, hp, 0, << >>)
    IN  IF ~IsOk(c.ret) THEN Outcome(mp, hp, d, c.ret)
        ELSE FreeEach(c.v, mp, hp, f, d, io)

(***************************************************************************)
(* open.  io names the file-system call that fails, if any.  The master    *)
(* page is read into BytesMut::with_capacity(PAGE_SIZE), whose length is   *)
(* 0; get_u16 panics when fewer than two bytes remain.                     *)
(***************************************************************************)
RECURSIVE OpenLoop(_, _, _, _, _, _)
OpenLoop(i, mp, hp, buf, d, length) ==
    IF i = MAX_HEADER_PAGE THEN Outcome(mp, hp, d, Ok(0))
    ELSE IF Len(buf) < 2 THEN Panic(mp, hp, d)
    ELSE IF VecInsertPanics(mp, i) THEN Panic(mp, hp, d)
    ELSE
    LET mp1 == VecInsert(mp, i, buf[1] * 256 + buf[2])
        rest == SubSeq(buf, 3, Len(buf))
    IN  IF header_page_offset(i) < length
        THEN LET header_page == ReadAt(d, VecWithCapacity(PAGE_SIZE),
                                       header_page_offset(i))
             IN  IF VecInsertPanics(hp, i) THEN Panic(mp1, hp, d)
                 ELSE OpenLoop(i + 1, mp1, VecInsert(hp, i, header_page),
                               rest, d, length)
        ELSE OpenLoop(i + 1, mp1, hp, rest, d, length)

open(mp, hp, f, d, io) ==
    IF io = "open" THEN [file |-> f] @@ Outcome(mp, hp, d, Err("IOFailure"))
    ELSE IF io = "metadata" THEN [file |-> "Some"] @@ Outcome(mp, hp, d, Err("IOFailure"))
    ELSE IF Len(d) = 0
    THEN LET w == write_master_page(mp, "Some", d, io = "write")
         IN  [file |-> "Some"] @@ Outcome(mp, hp, w.disk, w.ret)
    ELSE IF io = "read" THEN [file |-> "Some"] @@ Outcome(mp, hp, d, Err("IOFailure"))
    ELSE [file |-> "Some"] @@
         OpenLoop(0, mp, hp, ReadAt(d, VecWithCapacity(PAGE_SIZE), master_page_offset),
                  d, Len(d))

(***************************************************************************)
(* The handle after PartitionHandle::new, and the files open may find: a   *)
(* new (empty) file, or an older file of one or more pages.                *)
(***************************************************************************)
InitialFiles == {<< >>, Zeros(PAGE_SIZE), Zeros(PAGE_SIZE * 2)}

Init ==
    /\ file = "None"
    /\ disk \in InitialFiles
    /\ master_page = VecWithCapacity(MAX_HEADER_PAGE)
    /\ header_pages = VecWithCapacity(MAX_HEADER_PAGE)
    /\ panicked = FALSE
    /\ call = [op |-> "new", a |-> 0, b |-> 0]
    /\ ret = Ok(0)
    /\ repeated = FALSE
    /\ opened = FALSE
    /\ allocated = {}
    /\ buffer = << >>
    /\ page_io = << >>
    /\ nops = 0
    /\ oob = FALSE
    /\ lock_trace = << >>
    /\ hooks = << >>
    /\ dropped = << >>
    /\ byte_buffer = ByteBufferNew
    /\ data_box = Null
    /\ hash_frames = 0
    /\ decoded = Null

(***************************************************************************)
(* Inputs of the calls: the first, second and last index of a header and   *)
(* the index one past it; headers up to one past the last; and as page     *)
(* numbers the first and the last page of each of these headers.           *)
(***************************************************************************)
HeaderArgs == 0..MAX_HEADER_PAGE

PageArgs == {0, 1, DATA_PAGES_PER_HEADER - 1, DATA_PAGES_PER_HEADER}

PageNums ==
    {h * DATA_PAGES_PER_HEADER + p :
        h \in HeaderArgs, p \in {0, DATA_PAGES_PER_HEADER - 1}}

IOFaults == {<<FALSE, FALSE>>, <<TRUE, FALSE>>, <<FALSE, TRUE>>}

OpenFaults == {"none", "open", "metadata", "write", "read"}

(***************************************************************************)
(* Buffers of the page I/O calls: a page of PAGE_SIZE bytes, every byte    *)
(* the same value.  MaxWrites bounds the write_page calls of a run.        *)
(***************************************************************************)
MaxWrites == 2

MaxFill == 2

PageBuf(x) == [k \in 1..PAGE_SIZE |-> x]

WriteBufs == {PageBuf(x) : x \in 1..MaxFill}

(***************************************************************************)
(* One action per public operation.  call and ret are the last call and    *)
(* what it returned; buffer is the byte buffer passed to it, as the call   *)
(* left it, and page_io the file-system calls it made on a data page.      *)
(* repeated, opened and allocated are the history of the calls: whether    *)
(* the last call repeats the call before it (the same operation with the   *)
(* same arguments), whether the last open returned success, and the pages  *)
(* a successful allocation returned and no successful free_page released   *)
(* since.  nops counts the calls that are bounded (write_page here).       *)
(***************************************************************************)
NoCollaborator ==
    /\ lock_trace' = << >>
    /\ hooks' = << >>

NoBuffer ==
    /\ buffer' = << >>
    /\ page_io' = << >>
    /\ dropped' = << >>
    /\ NoCollaborator
    /\ NoValueObjects
    /\ UNCHANGED <<nops, oob>>

Apply(o) ==
    /\ master_page' = o.mp
    /\ header_pages' = o.hp
    /\ disk' = o.disk
    /\ ret' = o.ret
    /\ panicked' = o.panic

Open ==
    /\ ~panicked
    /\ \E io \in OpenFaults :
          LET o == open(master_page, header_pages, file, disk, io)
          IN  /\ Apply(o)
              /\ file' = o.file
              /\ opened' = (~o.panic /\ IsOk(o.ret))
    /\ call' = [op |-> "open", a |-> 0, b |-> 0]
    /\ repeated' = (call' = call)
    /\ NoBuffer
    /\ UNCHANGED allocated

AllocPage ==
    /\ ~panicked
    /\ \E io \in IOFaults :
          LET o == alloc_page(master_page, header_pages, file, disk, io)
          IN  /\ Apply(o)
              /\ allocated' = IF IsOk(o.ret) THEN allocated \cup {o.ret.val}
                              ELSE allocated
    /\ call' = [op |-> "alloc_page", a |-> 0, b |-> 0]
    /\ repeated' = (call' = call)
    /\ NoBuffer
    /\ UNCHANGED <<file, opened>>

AllocPageSpecific ==
    /\ ~panicked
    /\ \E h \in HeaderArgs, p \in PageArgs, io \in IOFaults :
          LET o == alloc_page_specific(master_page, header_pages, file, disk, h, p, io)
          IN  /\ Apply(o)
              /\ allocated' = IF IsOk(o.ret) THEN allocated \cup {o.ret.val}
                              ELSE allocated
              /\ call' = [op |-> "alloc_page_specific", a |-> h, b |-> p]
              /\ repeated' = (call' = call)
    /\ NoBuffer
    /\ UNCHANGED <<file, opened>>

FreePage ==
    /\ ~panicked
    /\ \E n \in PageNums, io \in IOFaults :
          LET o == free_page(master_page, header_pages, file, disk, n, io)
          IN  /\ Apply(o)
              /\ allocated' = IF IsOk(o.ret) THEN allocated \ {n} ELSE allocated
              /\ call' = [op |-> "free_page", a |-> n, b |-> 0]
              /\ repeated' = (call' = call)
    /\ NoBuffer
    /\ UNCHANGED <<file, opened>>

AllocatedBits(hp) ==
    {n \in PageNums :
        /\ VecHas(hp, n \div DATA_PAGES_PER_HEADER)
        /\ get_bit(VecAt(hp, n \div DATA_PAGES_PER_HEADER),
                   n % DATA_PAGES_PER_HEADER) = Ok(1)}

FreeDataPages ==
    /\ ~panicked
    /\ \E io \in IOFaults :
          LET o == free_data_pages(master_page, header_pages, file, disk, io)
          IN  /\ Apply(o)
              /\ allocated' = allocated \ (AllocatedBits(header_pages) \ AllocatedBits(o.hp))
    /\ call' = [op |-> "free_data_pages", a |-> 0, b |-> 0]
    /\ repeated' = (call' = call)
    /\ NoBuffer
    /\ UNCHANGED <<file, opened>>

IsNotAllocatedPage ==
    /\ ~panicked
    /\ \E n \in PageNums :
          /\ ret' = is_not_allocated_page(master_page, header_pages, n)
          /\ call' = [op |-> "is_not_allocated_page", a |-> n, b |-> 0]
          /\ repeated' = (call' = call)
    /\ NoBuffer
    /\ UNCHANGED <<file, disk, master_page, header_pages, panicked, opened, allocated>>

ReadPage ==
    /\ ~panicked
    /\ \E n \in PageNums, fault \in {"none", "read"} :
          LET o == read_page(master_page, header_pages, file, disk, n,
                             PageBuf(0), fault)
          IN  /\ buffer' = o.buf
              /\ ret' = o.ret
              /\ page_io' = o.io
              /\ call' = [op |-> "read_page", a |-> n, b |-> 0]
              /\ repeated' = (call' = call)
    /\ dropped' = << >>
    /\ NoCollaborator
    /\ NoValueObjects
    /\ UNCHANGED <<file, disk, master_page, header_pages, panicked, opened,
                   allocated, nops, oob>>

WritePage ==
    /\ ~panicked
    /\ nops < MaxWrites
    /\ \E n \in PageNums, b \in WriteBufs, fault \in {"none", "write", "sync"} :
          LET o == write_page(master_page, header_pages, file, disk, n, b, fault)
          IN  /\ disk' = o.disk
              /\ ret' = o.ret
              /\ page_io' = o.io
              /\ buffer' = b
              /\ call' = [op |-> "write_page", a |-> n, b |-> 0]
              /\ repeated' = (call' = call)
    /\ nops' = nops + 1
    /\ dropped' = << >>
    /\ NoCollaborator
    /\ NoValueObjects
    /\ UNCHANGED <<file, master_page, header_pages, panicked, opened,
                   allocated, oob>>

(***************************************************************************)
(* The handle is dropped (Drop only prints) and PartitionHandle::new makes *)
(* a fresh one for the same file.  dropped keeps the in-memory master page *)
(* and header pages of the handle that went away, when it was open.        *)
(***************************************************************************)
NewHandle ==
    /\ ~panicked
    /\ file' = "None"
    /\ master_page' = VecWithCapacity(MAX_HEADER_PAGE)
    /\ header_pages' = VecWithCapacity(MAX_HEADER_PAGE)
    /\ opened' = FALSE
    /\ call' = [op |-> "new", a |-> 0, b |-> 0]
    /\ repeated' = (call' = call)
    /\ ret' = Ok(0)
    /\ dropped' = IF opened /\ file = "Some"
                  THEN <<master_page, header_pages>>
                  ELSE << >>
    /\ buffer' = << >>
    /\ page_io' = << >>
    /\ NoCollaborator
    /\ NoValueObjects
    /\ UNCHANGED <<disk, panicked, allocated, nops, oob>>

Next ==
    \/ NewHandle
    \/ Open
    \/ AllocPage
    \/ AllocPageSpecific
    \/ FreePage
    \/ FreeDataPages
    \/ IsNotAllocatedPage
    \/ ReadPage
    \/ WritePage

Spec == Init /\ [][Next]_vars

(***************************************************************************)
(* Vocabulary of the properties.                                           *)
(***************************************************************************)
Ready == opened /\ file = "Some" /\ ~panicked

ValidHeaders == 0..(MAX_HEADER_PAGE - 1)

ValidIndices == 0..(DATA_PAGES_PER_HEADER - 1)

ValidPages == 0..(MAX_HEADER_PAGE * DATA_PAGES_PER_HEADER - 1)

PagesOf(h) == {n \in ValidPages : n \div DATA_PAGES_PER_HEADER = h}

Popcount(hp, h) == IF VecHas(hp, h) THEN count_ones(VecAt(hp, h)) ELSE 0

BitIsOne(hp, h, p) == VecHas(hp, h) /\ get_bit(VecAt(hp, h), p) = Ok(1)

AllocSpecificCall(h, p) == [op |-> "alloc_page_specific", a |-> h, b |-> p]

FreePageCall(n) == [op |-> "free_page", a |-> n, b |-> 0]

(***************************************************************************)
(* C1: once the partition is open and no call is in progress, every header *)
(* index h has a master counter, and master_page[h] is the number of 1     *)
(* bits of header_pages[h] (0 when header h has no bitmap).                *)
(***************************************************************************)
C1_MasterCountsBitmap ==
    Ready => \A h \in ValidHeaders :
                /\ VecHas(master_page, h)
                /\ VecAt(master_page, h) = Popcount(header_pages, h)

(***************************************************************************)
(* C2: for every page number n, is_not_allocated_page(n) is false exactly  *)
(* when n was allocated and not freed since, and true otherwise (a fresh   *)
(* partition and an out-of-range header included).                         *)
(***************************************************************************)
C2_QueryMatchesHistory ==
    Ready => \A n \in PageNums :
                is_not_allocated_page(master_page, header_pages, n)
                    = Ok(IF n \in allocated THEN 0 ELSE 1)

(***************************************************************************)
(* C3: after alloc_page_specific(h, p) returned success,                   *)
(* is_not_allocated_page(p + h * DATA_PAGES_PER_HEADER) is false.          *)
(***************************************************************************)
C3_AllocatedPageIsAllocated ==
    (~panicked /\ call.op = "alloc_page_specific" /\ IsOk(ret)) =>
        is_not_allocated_page(master_page, header_pages,
                              call.b + call.a * DATA_PAGES_PER_HEADER) = Ok(0)

(***************************************************************************)
(* No allocation ever returns success: the case C3 speaks of is not        *)
(* reachable, every bitmap the code creates having length 0.               *)
(***************************************************************************)
NoAllocationSucceeds ==
    ~(call.op \in {"alloc_page", "alloc_page_specific"} /\ IsOk(ret))

(***************************************************************************)
(* C4: alloc_page_specific(h, p) on a bit that is already 1, and in        *)
(* particular a call that repeats the preceding alloc_page_specific(h, p)  *)
(* of a valid (h, p) with no free in between, fails with AlreadyAllocated  *)
(* and allocates nothing.                                                  *)
(***************************************************************************)
C4_SecondAllocFails ==
    /\ [](( /\ Ready
            /\ call.op = "alloc_page_specific"
            /\ call.a \in ValidHeaders
            /\ call.b \in ValidIndices
            /\ repeated )
          => ret.tag = "AlreadyAllocated")
    /\ [][\A h \in ValidHeaders, p \in ValidIndices :
             ( /\ Ready
               /\ call' = AllocSpecificCall(h, p)
               /\ BitIsOne(header_pages, h, p) )
             => /\ ret'.tag = "AlreadyAllocated"
                /\ UNCHANGED <<master_page, header_pages, allocated>>]_vars

(***************************************************************************)
(* C5: alloc_page_specific(h, p) with h < MAX_HEADER_PAGE and              *)
(* p < DATA_PAGES_PER_HEADER on a header with no bitmap yet, whatever      *)
(* lower headers exist, creates a bitmap of DATA_PAGES_PER_HEADER bits     *)
(* whose only 1 bit is p and returns p + h * DATA_PAGES_PER_HEADER (unless *)
(* the file system fails).                                                 *)
(***************************************************************************)
C5_AllocCreatesHeader ==
    [][\A h \in ValidHeaders, p \in ValidIndices :
          ( /\ Ready
            /\ call' = AllocSpecificCall(h, p)
            /\ ~VecHas(header_pages, h)
            /\ ret'.tag # "IOFailure" )
          => /\ ~panicked'
             /\ ret' = Ok(p + h * DATA_PAGES_PER_HEADER)
             /\ VecHas(header_pages', h)
             /\ Len(VecAt(header_pages', h)) * 8 = DATA_PAGES_PER_HEADER
             /\ get_bit(VecAt(header_pages', h), p) = Ok(1)
             /\ count_ones(VecAt(header_pages', h)) = 1]_vars

(***************************************************************************)
(* C6: alloc_page() returns the lowest page number that is not allocated:  *)
(* 0 on a partition just opened, and 0 again after free_page(0).           *)
(***************************************************************************)
C6_AllocFirstFit ==
    [][( /\ Ready
         /\ call'.op = "alloc_page"
         /\ ret'.tag # "IOFailure"
         /\ allocated # ValidPages )
       => ret' = Ok(Min(ValidPages \ allocated))]_vars

(***************************************************************************)
(* C7: when exactly the pages of the first h headers are allocated, the    *)
(* next alloc_page() creates header h and returns                          *)
(* h * DATA_PAGES_PER_HEADER.                                              *)
(***************************************************************************)
C7_AllocOpensNextHeader ==
    [][\A h \in ValidHeaders :
          ( /\ Ready
            /\ call'.op = "alloc_page"
            /\ ret'.tag # "IOFailure"
            /\ allocated = 0..(h * DATA_PAGES_PER_HEADER - 1) )
          => /\ ret' = Ok(h * DATA_PAGES_PER_HEADER)
             /\ VecHas(header_pages', h)
             /\ BitIsOne(header_pages', h, 0)]_vars

(***************************************************************************)
(* C8: alloc_page() fails with CapacityExceeded exactly when every one of  *)
(* the MAX_HEADER_PAGE header slots holds DATA_PAGES_PER_HEADER allocated  *)
(* pages; never while a slot, created or not, holds fewer.                 *)
(***************************************************************************)
C8_CapacityExceededOnlyWhenFull ==
    [][( /\ Ready
         /\ call'.op = "alloc_page" )
       => ( ret'.tag = "CapacityExceeded"
              <=> \A h \in ValidHeaders : PagesOf(h) \subseteq allocated )]_vars

(***************************************************************************)
(* C9: after free_page(n) returned success, is_not_allocated_page(n) is    *)
(* true.                                                                   *)
(***************************************************************************)
C9_FreedPageIsFree ==
    (~panicked /\ call.op = "free_page" /\ IsOk(ret)) =>
        is_not_allocated_page(master_page, header_pages, call.a) = Ok(1)

(***************************************************************************)
(* No free_page ever returns success: the case C9 speaks of is not         *)
(* reachable, no bit ever being 1.                                         *)
(***************************************************************************)
NoFreeSucceeds ==
    ~(call.op \in {"free_page"} /\ IsOk(ret))

(***************************************************************************)
(* C10: free_page(n) on a page that is not allocated (no bitmap loaded for *)
(* its header, or its bit 0, or freed just before) fails with              *)
(* NotAllocated.                                                           *)
(***************************************************************************)
C10_FreeUnallocatedFails ==
    [][\A n \in PageNums :
          ( /\ Ready
            /\ call' = FreePageCall(n)
            /\ n \notin allocated )
          => ret'.tag = "NotAllocated"]_vars

(***************************************************************************)
(* C11: read_page(n, buf) and write_page(n, buf) on a page that is not     *)
(* allocated (a fresh partition included) fail with NotAllocated and make  *)
(* no file-system call: the file is left as it was.                        *)
(***************************************************************************)
C11_UnallocatedIOFails ==
    [][\A n \in PageNums :
          ( /\ Ready
            /\ call'.op \in {"read_page", "write_page"}
            /\ call'.a = n
            /\ n \notin allocated )
          => /\ ret'.tag = "NotAllocated"
             /\ page_io' = << >>
             /\ disk' = disk]_vars

(***************************************************************************)
(* C12: write_page(n, data) on an allocated page n, then read_page(n, out) *)
(* with n allocated throughout and no other write to n, leaves out equal   *)
(* to data.  The read is compared with the last data written to page n.    *)
(***************************************************************************)
C12_ReadReturnsWritten ==
    [][\A n \in ValidPages :
          ( /\ Ready
            /\ n \in allocated
            /\ call' = [op |-> "read_page", a |-> n, b |-> 0]
            /\ IsOk(ret')
            /\ Len(disk) >= data_page_offset(n) + PAGE_SIZE )
          => buffer' = SubSeq(disk, data_page_offset(n) + 1,
                              data_page_offset(n) + PAGE_SIZE)]_vars

(***************************************************************************)
(* C13: after free_data_pages() returned success no page is allocated:     *)
(* every master counter is 0, every bitmap is all zero, and                *)
(* is_not_allocated_page(n) is true for every n.                           *)
(***************************************************************************)
C13_FreeAllLeavesNothing ==
    (Ready /\ call.op = "free_data_pages" /\ IsOk(ret)) =>
        /\ \A h \in ValidHeaders :
              /\ VecHas(master_page, h)
              /\ VecAt(master_page, h) = 0
              /\ Popcount(header_pages, h) = 0
        /\ \A n \in PageNums :
              is_not_allocated_page(master_page, header_pages, n) = Ok(1)

(***************************************************************************)
(* The file layout on its own: each step computes the offset of one page   *)
(* region, of the master page, of the header page h or of the data page j  *)
(* of header h.  call is the region asked for, ret its offset; two         *)
(* consecutive steps compare any two regions.  The handle is not touched.  *)
(***************************************************************************)
HandleIdle ==
    UNCHANGED <<file, disk, master_page, header_pages, panicked, opened,
                allocated, buffer, page_io, nops, oob, lock_trace, hooks,
                dropped, byte_buffer, data_box, hash_frames, decoded>>

InitLayout == Init /\ disk = << >>

MasterPageOffset ==
    /\ call' = [op |-> "master_page_offset", a |-> 0, b |-> 0]
    /\ ret' = Ok(master_page_offset)
    /\ repeated' = (call' = call)
    /\ HandleIdle

HeaderPageOffset ==
    /\ \E h \in ValidHeaders :
          /\ call' = [op |-> "header_page_offset", a |-> h, b |-> 0]
          /\ ret' = Ok(header_page_offset(h))
    /\ repeated' = (call' = call)
    /\ HandleIdle

DataPageOffset ==
    /\ \E h \in ValidHeaders, j \in ValidIndices :
          /\ call' = [op |-> "data_page_offset", a |-> h, b |-> j]
          /\ ret' = Ok(data_page_offset(h * DATA_PAGES_PER_HEADER + j))
    /\ repeated' = (call' = call)
    /\ HandleIdle

NextLayout ==
    \/ MasterPageOffset
    \/ HeaderPageOffset
    \/ DataPageOffset

SpecLayout == InitLayout /\ [][NextLayout]_vars

(***************************************************************************)
(* The regions in (h, j) order: the master page, then for each header h    *)
(* its header page followed by its data pages j = 0, 1, ...                *)
(***************************************************************************)
IsRegion(c) ==
    c.op \in {"master_page_offset", "header_page_offset", "data_page_offset"}

RegionKey(c) ==
    IF c.op = "master_page_offset" THEN <<-1, -1>>
    ELSE IF c.op = "header_page_offset" THEN <<c.a, -1>>
    ELSE <<c.a, c.b>>

KeyBefore(k1, k2) == k1[1] < k2[1] \/ (k1[1] = k2[1] /\ k1[2] < k2[2])

RegionsDisjoint(o1, o2) == o1 + PAGE_SIZE <= o2 \/ o2 + PAGE_SIZE <= o1

(***************************************************************************)
(* C14: for h < MAX_HEADER_PAGE and j < DATA_PAGES_PER_HEADER the          *)
(* page-sized regions at master_page_offset(), header_page_offset(h) and   *)
(* data_page_offset(h * DATA_PAGES_PER_HEADER + j) are pairwise disjoint,  *)
(* and a region later in (h, j) order has a strictly larger offset.        *)
(***************************************************************************)
C14_RegionsDisjointIncreasing ==
    [][(IsRegion(call) /\ IsRegion(call')) =>
          /\ (RegionKey(call) # RegionKey(call'))
                => RegionsDisjoint(ret.val, ret'.val)
          /\ KeyBefore(RegionKey(call), RegionKey(call'))
                => ret.val < ret'.val]_vars

(* Reached: the offset of the last data page of the last header, past     *)
(* every header page and every other data page.                           *)
C14_Witness ==
    /\ call = [op |-> "data_page_offset", a |-> MAX_HEADER_PAGE - 1,
               b |-> DATA_PAGES_PER_HEADER - 1]
    /\ ret.val >= header_page_offset(MAX_HEADER_PAGE - 1) + PAGE_SIZE
    /\ ret.val >= DATA_PAGES_PER_HEADER * PAGE_SIZE

(***************************************************************************)
(* Virtual page numbers (StorageManager).  The code's K is 10000000000 and *)
(* usize has 64 bits; both are scaled here, K to MaxK (above the number of *)
(* local pages of a partition) and the largest usize to MaxUsize, so that  *)
(* a few partition numbers fit below the largest usize and the next ones   *)
(* do not, as 1844674407 and 1844674408 do in the code.                    *)
(* part_num * K + page_num beyond the largest usize panics in a build with *)
(* overflow checks and wraps in a build without.                           *)
(***************************************************************************)
MaxK == 100

MaxUsize == 511

K == MaxK

USIZE_MAX == MaxUsize

get_part_num(page) == page \div K

(* The index of the page within its header instead of within the partition. *)
get_page_num_in_header(page) == page % DATA_PAGES_PER_HEADER

get_page_num(page) == page % K

Overflows(part_num, page_num) == part_num * K + page_num > USIZE_MAX

get_virtual_page_num(part_num, page_num) ==
    (part_num * K + page_num) % (USIZE_MAX + 1)

PartNums == (0..(USIZE_MAX \div K + 2)) \cup {USIZE_MAX}

LocalPages == 0..(K - 1)

VirtualPages == 0..USIZE_MAX

VpnCall(p, n) == [op |-> "get_virtual_page_num", a |-> p, b |-> n]

PartNumCall(v) == [op |-> "get_part_num", a |-> v, b |-> 0]

PageNumCall(v) == [op |-> "get_page_num", a |-> v, b |-> 0]

StorageIdle ==
    UNCHANGED <<file, disk, master_page, header_pages, opened, allocated,
                buffer, page_io, nops, oob, lock_trace, hooks, dropped,
                byte_buffer, data_box, hash_frames, decoded>>

GetVirtualPageNum ==
    /\ ~panicked
    /\ \E p \in PartNums, n \in LocalPages, overflow_checks \in BOOLEAN :
          /\ call' = VpnCall(p, n)
          /\ IF Overflows(p, n) /\ overflow_checks
             THEN ret' = Err("Panic") /\ panicked' = TRUE
             ELSE ret' = Ok(get_virtual_page_num(p, n)) /\ panicked' = FALSE
    /\ repeated' = (call' = call)
    /\ StorageIdle

GetPartNum ==
    /\ ~panicked
    /\ \E v \in VirtualPages :
          /\ call' = PartNumCall(v)
          /\ ret' = Ok(get_part_num(v))
    /\ repeated' = (call' = call)
    /\ UNCHANGED panicked
    /\ StorageIdle

GetPageNum ==
    /\ ~panicked
    /\ \E v \in VirtualPages :
          /\ call' = PageNumCall(v)
          /\ ret' = Ok(get_page_num(v))
    /\ repeated' = (call' = call)
    /\ UNCHANGED panicked
    /\ StorageIdle

(***************************************************************************)
(* DiskSpaceManager::alloc_part and alloc_part_specific: the body of each  *)
(* is todo!(), which panics; no file is created.                           *)
(***************************************************************************)
AllocPartCall == [op |-> "alloc_part", a |-> 0, b |-> 0]

AllocPartSpecificCall(n) == [op |-> "alloc_part_specific", a |-> n, b |-> 0]

AllocPart ==
    /\ ~panicked
    /\ call' = AllocPartCall
    /\ ret' = Err("Panic")
    /\ panicked' = TRUE
    /\ repeated' = (call' = call)
    /\ StorageIdle

AllocPartSpecific ==
    /\ ~panicked
    /\ \E n \in PartNums :
          call' = AllocPartSpecificCall(n)
    /\ ret' = Err("Panic")
    /\ panicked' = TRUE
    /\ repeated' = (call' = call)
    /\ StorageIdle

NextStorage ==
    \/ AllocPart
    \/ AllocPartSpecific
    \/ GetVirtualPageNum
    \/ GetPartNum
    \/ GetPageNum

SpecStorage == InitLayout /\ [][NextStorage]_vars

(***************************************************************************)
(* The round trips, for the pairs (p, n) of the set S: joining (p, n)      *)
(* returns a number that the next call splits into p and into n, and       *)
(* joining the two parts of a number v, the page part taken by the call    *)
(* before, returns v.                                                      *)
(***************************************************************************)
AllPairs == PartNums \X ValidPages

RoundTrips(S) ==
    /\ (call'.op = "get_virtual_page_num" /\ <<call'.a, call'.b>> \in S)
          => (~panicked' /\ IsOk(ret'))
    /\ ( /\ call.op = "get_virtual_page_num"
         /\ <<call.a, call.b>> \in S
         /\ call' = PartNumCall(ret.val) )
          => ret' = Ok(call.a)
    /\ ( /\ call.op = "get_virtual_page_num"
         /\ <<call.a, call.b>> \in S
         /\ call' = PageNumCall(ret.val) )
          => ret' = Ok(call.b)
    /\ ( /\ call.op = "get_page_num"
         /\ call' = VpnCall(get_part_num(call.a), ret.val) )
          => ret' = Ok(call.a)

(***************************************************************************)
(* C15 as claimed: for every partition number p and every local page       *)
(* number n < MAX_HEADER_PAGE * DATA_PAGES_PER_HEADER,                     *)
(* get_part_num(get_virtual_page_num(p, n)) = p and                        *)
(* get_page_num(get_virtual_page_num(p, n)) = n, and for every v,          *)
(* get_virtual_page_num(get_part_num(v), get_page_num(v)) = v.             *)
(***************************************************************************)
C15_RoundTripEveryPartition == [][RoundTrips(AllPairs)]_vars

(***************************************************************************)
(* C15 amended: the same, for the partition numbers p and local page       *)
(* numbers n whose p * K + n is at most the largest usize.                 *)
(***************************************************************************)
C15_RoundTripRepresentable ==
    [][RoundTrips({s \in AllPairs : ~Overflows(s[1], s[2])})]_vars

(* Reached: the last local page of the largest partition number that fits  *)
(* has been joined and the result split again into its page number.        *)
C15_Witness ==
    /\ call.op = "get_page_num"
    /\ call.a = get_virtual_page_num(USIZE_MAX \div K - 1,
                                     MAX_HEADER_PAGE * DATA_PAGES_PER_HEADER - 1)
    /\ call.a >= K
    /\ ret = Ok(MAX_HEADER_PAGE * DATA_PAGES_PER_HEADER - 1)

(***************************************************************************)
(* The bit operations on their own, on a byte array held in buffer: the    *)
(* arrays of the tests of bit.rs, arrays of one bit pattern, and arrays of *)
(* (U32_MAX + 1) / 8 bytes, whose number of bits does not fit a u32.       *)
(* MaxBitOps bounds the set_bit calls of a run.                            *)
(***************************************************************************)
MaxBitOps == 1

TestBytes == <<107, 77>>

Bytes(n, x) == [k \in 1..n |-> x]

InitialBuffers ==
    { << >>, <<0>>, TestBytes,
      Bytes(U32_MAX \div 8, 255),
      Bytes((U32_MAX + 1) \div 8, 0),
      Bytes((U32_MAX + 1) \div 8, 255) }

U32s == 0..U32_MAX

InitBit ==
    /\ file = "None"
    /\ disk = << >>
    /\ master_page = VecWithCapacity(MAX_HEADER_PAGE)
    /\ header_pages = VecWithCapacity(MAX_HEADER_PAGE)
    /\ panicked = FALSE
    /\ call = [op |-> "new", a |-> 0, b |-> 0]
    /\ ret = Ok(0)
    /\ repeated = FALSE
    /\ opened = FALSE
    /\ allocated = {}
    /\ buffer \in InitialBuffers
    /\ page_io = << >>
    /\ nops = 0
    /\ oob = FALSE
    /\ lock_trace = << >>
    /\ hooks = << >>
    /\ dropped = << >>
    /\ byte_buffer = ByteBufferNew
    /\ data_box = Null
    /\ hash_frames = 0
    /\ decoded = Null

BitIdle ==
    UNCHANGED <<file, disk, master_page, header_pages, opened, allocated,
                page_io, lock_trace, hooks, dropped, byte_buffer, data_box,
                hash_frames, decoded>>

GetBit ==
    /\ ~panicked
    /\ \E i \in U32s :
          /\ call' = [op |-> "get_bit", a |-> i, b |-> 0]
          /\ ret' = get_bit(buffer, i)
    /\ repeated' = (call' = call)
    /\ UNCHANGED <<buffer, panicked, nops, oob>>
    /\ BitIdle

(***************************************************************************)
(* set_bit takes the byte by get_unchecked_mut, with no test of the index: *)
(* beyond the array the behaviour is undefined.  The call then either      *)
(* writes a byte outside the array and returns Ok (oob), or the process    *)
(* is stopped (a fault, or the debug assertion of get_unchecked_mut).      *)
(***************************************************************************)
SetBit ==
    /\ ~panicked
    /\ nops < MaxBitOps
    /\ \E i \in U32s, bit \in {0, 1} :
          /\ call' = [op |-> "set_bit", a |-> i, b |-> bit]
          /\ IF VecHas(buffer, i \div 8)
             THEN /\ buffer' = set_bit(buffer, i, bit).val
                  /\ ret' = Ok(0)
                  /\ UNCHANGED <<panicked, oob>>
             ELSE \/ /\ oob' = TRUE
                     /\ ret' = Ok(0)
                     /\ UNCHANGED <<buffer, panicked>>
                  \/ /\ panicked' = TRUE
                     /\ ret' = Err("Panic")
                     /\ UNCHANGED <<buffer, oob>>
    /\ repeated' = (call' = call)
    /\ nops' = nops + 1
    /\ BitIdle

CountOnes ==
    /\ ~panicked
    /\ call' = [op |-> "count_ones", a |-> 0, b |-> 0]
    /\ \E overflow_checks \in BOOLEAN :
          IF CountOverflows(buffer) /\ overflow_checks
          THEN ret' = Err("Panic") /\ panicked' = TRUE
          ELSE ret' = Ok(count_ones(buffer)) /\ panicked' = FALSE
    /\ repeated' = (call' = call)
    /\ UNCHANGED <<buffer, nops, oob>>
    /\ BitIdle

NextBit ==
    \/ GetBit
    \/ SetBit
    \/ CountOnes

SpecBit == InitBit /\ [][NextBit]_vars

(***************************************************************************)
(* The bits of an array, most significant bit of each byte first: bit j is *)
(* bit (7 - j mod 8), counted from the least significant bit, of byte      *)
(* j div 8.  NumBits is the number of bits, Ones the number of 1 bits.     *)
(***************************************************************************)
NumBits(v) == Len(v) * 8

BitAt(v, j) == (v[(j \div 8) + 1] \div (2 ^ (7 - (j % 8)))) % 2

Ones(v) == Cardinality({j \in 0..(NumBits(v) - 1) : BitAt(v, j) = 1})

(* The bits test_get_bit_on_bytes expects of [0b01101011, 0b01001101]. *)
TestBits == <<0, 1, 1, 0, 1, 0, 1, 1, 0, 1, 0, 0, 1, 1, 0, 1>>

SetBitInBounds == call'.op = "set_bit" /\ call'.a < NumBits(buffer) /\ IsOk(ret')

FitsU32(v) == NumBits(v) <= U32_MAX

(***************************************************************************)
(* C16: after set_bit(buf, i, v) with i < len(buf) * 8 returned success,   *)
(* get_bit(buf, i) is v and every other bit of buf is as before (and buf   *)
(* has the same length).                                                   *)
(***************************************************************************)
C16_SetThenGet ==
    [][SetBitInBounds =>
          /\ get_bit(buffer', call'.a) = Ok(call'.b)
          /\ Len(buffer') = Len(buffer)
          /\ \A j \in 0..(NumBits(buffer) - 1) :
                j # call'.a => BitAt(buffer', j) = BitAt(buffer, j)]_vars

(***************************************************************************)
(* The same for the arrays whose number of bits fits a u32, where get_bit  *)
(* does not fail on a valid index (see C19).                               *)
(***************************************************************************)
C16_SetThenGetWithinU32 ==
    [][(SetBitInBounds /\ FitsU32(buffer)) =>
          /\ get_bit(buffer', call'.a) = Ok(call'.b)
          /\ Len(buffer') = Len(buffer)
          /\ \A j \in 0..(NumBits(buffer) - 1) :
                j # call'.a => BitAt(buffer', j) = BitAt(buffer, j)]_vars

(***************************************************************************)
(* C17: the bit get_bit(bytes, i) returns is the bit at index i with the   *)
(* most significant bit of each byte first, across byte boundaries: bit    *)
(* (7 - i mod 8), counted from the least significant bit, of byte          *)
(* floor(i / 8); on the array of test_get_bit_on_bytes, the bits the test  *)
(* expects.                                                                *)
(***************************************************************************)
C17_MsbFirst ==
    (call.op = "get_bit" /\ IsOk(ret)) =>
        /\ ret.val = BitAt(buffer, call.a)
        /\ buffer = TestBytes => ret.val = TestBits[call.a + 1]

(* Reached: bit 9 of the test array, the second bit of its second byte,   *)
(* read as 1.                                                              *)
C17_Witness ==
    /\ buffer = TestBytes
    /\ call = [op |-> "get_bit", a |-> 9, b |-> 0]
    /\ ret = Ok(1)

(***************************************************************************)
(* The change of the number of 1 bits that set_bit(buf, i, bit) is to      *)
(* make: one up or down when it flips bit i, none when it does not.        *)
(***************************************************************************)
FlipDelta(v, i, bit) ==
    IF BitAt(v, i) = bit THEN 0 ELSE IF bit = 1 THEN 1 ELSE -1

C19_GetBitBounds ==
    call.op = "get_bit" =>
        IF call.a < NumBits(buffer) THEN IsOk(ret)
        ELSE ret.tag = "IllegalArgument"

(***************************************************************************)
(* The same for the arrays whose number of bits fits a u32.                *)
(***************************************************************************)
C19_GetBitBoundsWithinU32 ==
    (call.op = "get_bit" /\ FitsU32(buffer)) =>
        IF call.a < NumBits(buffer) THEN IsOk(ret)
        ELSE ret.tag = "IllegalArgument"

(***************************************************************************)
(* C20: set_bit(bytes, i, value) with i >= len * 8 (always so when bytes   *)
(* is empty) fails with IllegalArgument, touches no memory outside the     *)
(* array and leaves the array unchanged.                                   *)
(***************************************************************************)
C20_SetBitBounds ==
    [][(call'.op = "set_bit" /\ call'.a >= NumBits(buffer)) =>
          /\ ret'.tag = "IllegalArgument"
          /\ ~panicked'
          /\ ~oob'
          /\ buffer' = buffer]_vars

(***************************************************************************)
(* C21: open on a new (zero-length) file that returns success has written  *)
(* an all-zero master page, so the file is exactly PAGE_SIZE bytes long,   *)
(* and the in-memory master page has MAX_HEADER_PAGE counters, all 0.      *)
(***************************************************************************)
C21_OpenNewWritesMaster ==
    [][(call'.op = "open" /\ Len(disk) = 0 /\ ~panicked' /\ IsOk(ret'))
          => /\ disk' = Zeros(PAGE_SIZE)
             /\ master_page' = Zeros(MAX_HEADER_PAGE)]_vars

(***************************************************************************)
(* C22: when an open handle is dropped and a new handle opens the same     *)
(* file, the open (unless the file system fails it) returns success with   *)
(* the master counters and header bitmaps the dropped handle had, and      *)
(* is_not_allocated_page answers as the dropped handle did.                *)
(***************************************************************************)
SameAnswers(mp1, hp1, mp2, hp2) ==
    \A n \in PageNums :
        is_not_allocated_page(mp1, hp1, n) = is_not_allocated_page(mp2, hp2, n)

C22_ReopenRestores ==
    [][(/\ call.op = "new"
        /\ dropped # << >>
        /\ call'.op = "open"
        /\ ret'.tag # "IOFailure")
          => /\ ~panicked'
             /\ IsOk(ret')
             /\ master_page' = dropped[1]
             /\ header_pages' = dropped[2]
             /\ SameAnswers(master_page', header_pages', dropped[1], dropped[2])]_vars

NonIOErrors == {"AlreadyAllocated", "NotAllocated", "CapacityExceeded", "IllegalArgument"}

C25_FailureChangesNothing ==
    [][(/\ call'.op \in {"alloc_page", "alloc_page_specific", "free_page"}
        /\ ret'.tag \in NonIOErrors)
          => UNCHANGED <<master_page, header_pages>>]_vars

(***************************************************************************)
(* C26: no operation of PartitionHandle panics, in any reachable state.    *)
(***************************************************************************)
C26_NoPanic == ~panicked

(***************************************************************************)
(* C27: every alloc_page, alloc_page_specific, free_page and               *)
(* free_data_pages call acquires part_lock before it reads the master or   *)
(* a header page and releases it after its writes.                         *)
(***************************************************************************)
C27_MutationsHoldLock ==
    (/\ call.op \in {"alloc_page", "alloc_page_specific", "free_page", "free_data_pages"}
     /\ ~panicked)
        => lock_trace = <<"lock", "unlock">>

(***************************************************************************)
(* C28: each successful alloc_page_specific makes exactly one              *)
(* log-allocation notification, each successful free_page exactly one      *)
(* log-free notification, and each read_page or write_page that read or    *)
(* wrote the data page exactly one I/O notification.                       *)
(***************************************************************************)
Notifications(kind) == SelectSeq(hooks, LAMBDA x : x = kind)

C28_HooksReachedOnce ==
    /\ (call.op = "alloc_page_specific" /\ IsOk(ret))
          => Len(Notifications("logAllocPage")) = 1
    /\ (call.op = "free_page" /\ IsOk(ret))
          => Len(Notifications("logFreePage")) = 1
    /\ (/\ call.op \in {"read_page", "write_page"}
        /\ page_io # << >>
        /\ page_io[1] \in {Done("read_at"), Done("write_at")})
          => Len(Notifications("diskIOHook")) = 1

(***************************************************************************)
(* C30: alloc_part_specific(n) returns n and alloc_part returns a          *)
(* partition number, without panicking, and each leaves the file of the    *)
(* new partition exactly PAGE_SIZE bytes long.                             *)
(***************************************************************************)
C30_AllocPartCreatesFile ==
    [][(call'.op \in {"alloc_part", "alloc_part_specific"})
          => /\ ~panicked'
             /\ IsOk(ret')
             /\ (call'.op = "alloc_part_specific" => ret'.val = call'.a)
             /\ Len(disk') = PAGE_SIZE]_vars

(***************************************************************************)
(* C33: the layout is densely packed.  For h < MAX_HEADER_PAGE and         *)
(* j < DATA_PAGES_PER_HEADER, data page j of header h lies (j + 1) pages   *)
(* after header_page_offset(h), header h + 1 lies one page after the last  *)
(* data page of header h, and the offset of every region, in pages, is the *)
(* number of regions before it in (h, j) order, so that each page-aligned  *)
(* offset up to the last data page is the offset of exactly one region.    *)
(***************************************************************************)
AllRegionKeys ==
    {<<-1, -1>>} \cup (ValidHeaders \X ({-1} \cup ValidIndices))

RegionsBefore(c) ==
    Cardinality({k \in AllRegionKeys : KeyBefore(k, RegionKey(c))})

C33_DenselyPacked ==
    /\ call.op = "data_page_offset"
          => /\ ret.val = header_page_offset(call.a) + (call.b + 1) * PAGE_SIZE
             /\ call.b = DATA_PAGES_PER_HEADER - 1
                   => header_page_offset(call.a + 1) = ret.val + PAGE_SIZE
    /\ IsRegion(call) => ret.val = RegionsBefore(call) * PAGE_SIZE

C33_Witness ==
    /\ call = [op |-> "header_page_offset", a |-> MAX_HEADER_PAGE - 1, b |-> 0]
    /\ MAX_HEADER_PAGE > 1
    /\ ret.val = data_page_offset((MAX_HEADER_PAGE - 1) * DATA_PAGES_PER_HEADER - 1)
                    + PAGE_SIZE

(***************************************************************************)
(* ByteBuffer (common/buffer.rs).  Each method returns the buffer after    *)
(* the call, its result and whether it panicked.  Numbers are drawn below  *)
(* 2^31, so the bytes of a number above its fourth are 0.  usize is scaled *)
(* to USIZE_MAX as for the virtual page numbers.                           *)
(***************************************************************************)
MaxBufLen == 3

ISIZE_MAX == USIZE_MAX \div 2

BBOk(bb, r) == [bb |-> bb, ret |-> Ok(r), panic |-> FALSE]

BBErr(bb) == [bb |-> bb, ret |-> Err("NotEnoughBytes"), panic |-> FALSE]

BBPanic(bb) == [bb |-> bb, ret |-> Err("Panic"), panic |-> TRUE]

Reverse(s) == [k \in 1..Len(s) |-> s[Len(s) + 1 - k]]

ByteOf(val, shift) == IF shift > 3 THEN 0 ELSE (val \div (256 ^ shift)) % 256

(* BigEndian::write_uN / LittleEndian::write_uN into a buffer of n bytes *)
Encode(val, n, endian) ==
    LET be == [k \in 1..n |-> ByteOf(val, n - k)]
    IN  IF endian = "Big" THEN be ELSE Reverse(be)

RECURSIVE BigEndianValue(_)
BigEndianValue(bytes) ==
    IF Len(bytes) = 0 THEN 0
    ELSE BigEndianValue(SubSeq(bytes, 1, Len(bytes) - 1)) * 256 + bytes[Len(bytes)]

(* BigEndian::read_uN / LittleEndian::read_uN *)
Decode(bytes, endian) ==
    BigEndianValue(IF endian = "Big" THEN bytes ELSE Reverse(bytes))

(* todo!() *)
flush_bit(bb) == BBPanic(bb)

(***************************************************************************)
(* resize: size - data.len() is computed first.  Below the length the      *)
(* subtraction panics where overflow checks are on; where they are off it  *)
(* wraps, and Vec::extend panics reserving more than isize::MAX bytes.     *)
(***************************************************************************)
resize(bb, size, overflow_checks) ==
    LET len == Len(bb.data)
    IN  IF size < len /\ overflow_checks THEN BBPanic(bb)
        ELSE LET diff == IF size < len THEN USIZE_MAX + 1 + size - len
                         ELSE size - len
             IN  IF diff > 0
                 THEN IF len + diff > ISIZE_MAX THEN BBPanic(bb)
                      ELSE BBOk([bb EXCEPT !.data = @ \o Zeros(diff)], 0)
                 ELSE BBOk(bb, 0)

write_bytes(bb, bytes, overflow_checks) ==
    LET f == flush_bit(bb)
    IN  IF f.panic THEN f
        ELSE LET size == Len(bytes) + f.bb.w_pos
                 r == IF size > Len(f.bb.data)
                      THEN resize(f.bb, size, overflow_checks)
                      ELSE BBOk(f.bb, 0)
             IN  IF r.panic THEN r
                 ELSE BBOk([r.bb EXCEPT
                              !.data = [k \in 1..Len(@) |->
                                          IF k > r.bb.w_pos /\ k <= size
                                          THEN bytes[k - r.bb.w_pos] ELSE @[k]],
                              !.w_pos = size], 0)

NumberWidth(op) ==
    IF op \in {"write_u8", "read_u8"} THEN 1
    ELSE IF op \in {"write_u16", "read_u16"} THEN 2
    ELSE IF op \in {"write_u32", "read_u32"} THEN 4
    ELSE 8

(* write_u8, write_u16, write_u32, write_u64 *)
write_number(bb, op, val, overflow_checks) ==
    IF op = "write_u8" THEN write_bytes(bb, <<val>>, overflow_checks)
    ELSE write_bytes(bb, Encode(val, NumberWidth(op), bb.endian), overflow_checks)

write_string(bb, val, overflow_checks) ==
    LET n == write_number(bb, "write_u32", Len(val), overflow_checks)
    IN  IF n.panic THEN n ELSE write_bytes(n.bb, val, overflow_checks)

read_bytes(bb, size) ==
    LET f == flush_bit(bb)
    IN  IF f.panic THEN f
        ELSE IF f.bb.r_pos + size > Len(f.bb.data) THEN BBErr(f.bb)
        ELSE BBOk([f.bb EXCEPT !.r_pos = @ + size],
                  SubSeq(f.bb.data, f.bb.r_pos + 1, f.bb.r_pos + size))

read_u8(bb) ==
    LET f == flush_bit(bb)
    IN  IF f.panic THEN f
        ELSE IF f.bb.r_pos >= Len(f.bb.data) THEN BBErr(f.bb)
        ELSE BBOk([f.bb EXCEPT !.r_pos = @ + 1], f.bb.data[f.bb.r_pos + 1])

(* the macro read_number! *)
read_number(bb, offset) ==
    LET f == flush_bit(bb)
    IN  IF f.panic THEN f
        ELSE IF f.bb.r_pos + offset > Len(f.bb.data) THEN BBErr(f.bb)
        ELSE BBOk([f.bb EXCEPT !.r_pos = @ + offset],
                  Decode(SubSeq(f.bb.data, f.bb.r_pos + 1, f.bb.r_pos + offset),
                         f.bb.endian))

read_string(bb) ==
    LET size == read_number(bb, 4)
    IN  IF size.panic \/ ~IsOk(size.ret) THEN size
        ELSE read_bytes(size.bb, size.ret.val)

clear(bb) == BBOk([bb EXCEPT !.data = << >>, !.w_pos = 0, !.r_pos = 0], 0)

set_endian(bb, endian) == BBOk([bb EXCEPT !.endian = endian], 0)

(***************************************************************************)
(* One ByteBuffer and the calls made on it.  call.a is the number written, *)
(* the size, or the length of the string; call.b the byte a string is made *)
(* of.                                                                     *)
(***************************************************************************)
WriteOps == {"write_u8", "write_u16", "write_u32", "write_u64"}

ReadOps == {"read_u8", "read_u16", "read_u32", "read_u64"}

MatchingRead(op) ==
    IF op = "write_u8" THEN "read_u8"
    ELSE IF op = "write_u16" THEN "read_u16"
    ELSE IF op = "write_u32" THEN "read_u32"
    ELSE "read_u64"

Numbers(op) ==
    IF op = "write_u8" THEN {0, 1, 107, 255}
    ELSE IF op = "write_u16" THEN {0, 1, 256, 65535}
    ELSE {0, 1, 65536, 16777217}

BufferIdle ==
    UNCHANGED <<file, disk, master_page, header_pages, opened, allocated,
                buffer, page_io, nops, oob, lock_trace, hooks, dropped,
                data_box, hash_frames, decoded>>

ApplyBuffer(o) ==
    /\ byte_buffer' = o.bb
    /\ ret' = o.ret
    /\ panicked' = o.panic
    /\ repeated' = (call' = call)
    /\ BufferIdle

Resize ==
    /\ ~panicked
    /\ \E size \in 0..MaxBufLen, overflow_checks \in BOOLEAN :
          /\ call' = [op |-> "resize", a |-> size, b |-> 0]
          /\ ApplyBuffer(resize(byte_buffer, size, overflow_checks))

SetEndian ==
    /\ ~panicked
    /\ \E endian \in {"Big", "Little"} :
          /\ call' = [op |-> "set_endian", a |-> IF endian = "Big" THEN 0 ELSE 1,
                      b |-> 0]
          /\ ApplyBuffer(set_endian(byte_buffer, endian))

Clear ==
    /\ ~panicked
    /\ call' = [op |-> "clear", a |-> 0, b |-> 0]
    /\ ApplyBuffer(clear(byte_buffer))

WriteNumber ==
    /\ ~panicked
    /\ \E op \in WriteOps, overflow_checks \in BOOLEAN :
          \E val \in Numbers(op) :
             /\ call' = [op |-> op, a |-> val, b |-> 0]
             /\ ApplyBuffer(write_number(byte_buffer, op, val, overflow_checks))

WriteString ==
    /\ ~panicked
    /\ \E n \in 0..MaxBufLen, x \in {97, 122}, overflow_checks \in BOOLEAN :
          /\ call' = [op |-> "write_string", a |-> n, b |-> x]
          /\ ApplyBuffer(write_string(byte_buffer, Bytes(n, x), overflow_checks))

ReadNumber ==
    /\ ~panicked
    /\ \E op \in ReadOps :
          /\ call' = [op |-> op, a |-> 0, b |-> 0]
          /\ ApplyBuffer(IF op = "read_u8" THEN read_u8(byte_buffer)
                         ELSE read_number(byte_buffer, NumberWidth(op)))

ReadString ==
    /\ ~panicked
    /\ call' = [op |-> "read_string", a |-> 0, b |-> 0]
    /\ ApplyBuffer(read_string(byte_buffer))

NextBuffer ==
    \/ Resize
    \/ SetEndian
    \/ Clear
    \/ WriteNumber
    \/ WriteString
    \/ ReadNumber
    \/ ReadString

SpecBuffer == InitLayout /\ [][NextBuffer]_vars

(***************************************************************************)
(* C31: every write_u8/u16/u32/u64 and write_string returns, and the       *)
(* matching read_* made next at the position of the value returns the      *)
(* value written; in big-endian order write_u16(1) stores the bytes 0, 1.  *)
(***************************************************************************)
Written(bb1, bb2) == SubSeq(bb2.data, bb1.w_pos + 1, bb2.w_pos)

C31_WriteThenRead ==
    [][/\ (call'.op \in WriteOps \cup {"write_string"}) => ~panicked'
       /\ (call'.op = "write_u16" /\ call'.a = 1 /\ byte_buffer.endian = "Big")
             => Written(byte_buffer, byte_buffer') = <<0, 1>>
       /\ (/\ call.op \in WriteOps
           /\ call'.op = MatchingRead(call.op)
           /\ byte_buffer.r_pos + NumberWidth(call.op) = byte_buffer.w_pos)
             => ret' = Ok(call.a)
       /\ (/\ call.op = "write_string"
           /\ call'.op = "read_string"
           /\ byte_buffer.r_pos + 4 + call.a = byte_buffer.w_pos)
             => ret' = Ok(Bytes(call.a, call.b))]_vars

(***************************************************************************)
(* C32: resize(size) returns; with size at most the length it leaves the   *)
(* bytes and the length as they were, and with a larger size it appends    *)
(* zero bytes up to exactly size.                                          *)
(***************************************************************************)
C32_ResizeNeverShrinks ==
    [][call'.op = "resize" =>
          /\ ~panicked'
          /\ byte_buffer'.data =
                IF call'.a <= Len(byte_buffer.data) THEN byte_buffer.data
                ELSE byte_buffer.data \o Zeros(call'.a - Len(byte_buffer.data))]_vars

(***************************************************************************)
(* DataBox (databox/data_types.rs).  An Option is None or Some(x); a       *)
(* DataType is its name and, for String and ByteArray, the length.         *)
(* Integers and longs are drawn from the 32-bit range; their bytes are the *)
(* two's complement, the bytes of a negative v being the complements of    *)
(* the bytes of -(v + 1).                                                  *)
(***************************************************************************)
MaxStrLen == 2

MaxStack == 3

None == [tag |-> "None", val |-> 0]

Some(x) == [tag |-> "Some", val |-> x]

DataTypeOf(t, len) == [t |-> t, len |-> len]

datatype(d) ==
    IF d.variant = "Null" THEN None
    ELSE IF d.variant \in {"String", "ByteArray"}
         THEN Some(DataTypeOf(d.variant, Len(d.s)))
    ELSE Some(DataTypeOf(d.variant, 0))

(* iN::to_be_bytes *)
to_be_bytes(v, n) ==
    IF v >= 0 THEN [k \in 1..n |-> ByteOf(v, n - k)]
    ELSE [k \in 1..n |-> 255 - ByteOf(-(v + 1), n - k)]

(* Buf::get_i32 / get_i64 on the first n bytes *)
get_signed(buf, n) ==
    LET bytes == SubSeq(buf, 1, n)
    IN  IF bytes[1] >= 128
        THEN -BigEndianValue([k \in 1..n |-> 255 - bytes[k]]) - 1
        ELSE BigEndianValue(bytes)

to_bytes(d) ==
    IF d.variant = "Null" THEN << >>
    ELSE IF d.variant = "Boolean" THEN <<IF d.b THEN 1 ELSE 0>>
    ELSE IF d.variant = "Integer" THEN to_be_bytes(d.n, 4)
    ELSE IF d.variant = "Long" THEN to_be_bytes(d.n, 8)
    ELSE IF d.variant = "Float" THEN to_be_bytes(d.n, 8)
    ELSE d.s

IsUtf8(bytes) == \A k \in 1..Len(bytes) : bytes[k] < 128

DBOk(d) == [ret |-> Ok(d), panic |-> FALSE]

DBErr == [ret |-> Err("FromUtf8Error"), panic |-> FALSE]

DBPanic == [ret |-> Err("Panic"), panic |-> TRUE]

(***************************************************************************)
(* from_bytes.  get_u8, get_i32, get_i64 and get_f64 panic on a buffer     *)
(* that is too short.  For String and ByteArray the destination is         *)
(* Vec::with_capacity(len), and copy_to_slice fills its slice.             *)
(***************************************************************************)
from_bytes(buf, dt) ==
    IF dt.t = "Boolean"
    THEN IF Len(buf) < 1 THEN DBPanic
         ELSE DBOk(DataBoxOf("Boolean", buf[1] = 1, 0, << >>))
    ELSE IF dt.t = "Integer"
    THEN IF Len(buf) < 4 THEN DBPanic
         ELSE DBOk(DataBoxOf("Integer", FALSE, get_signed(buf, 4), << >>))
    ELSE IF dt.t \in {"Long", "Float"}
    THEN IF Len(buf) < 8 THEN DBPanic
         ELSE DBOk(DataBoxOf(dt.t, FALSE, get_signed(buf, 8), << >>))
    ELSE LET dst == VecWithCapacity(dt.len)
             filled == [k \in 1..Len(dst) |-> buf[k]]
         IN  IF Len(buf) < Len(dst) THEN DBPanic
             ELSE IF dt.t = "String" /\ ~IsUtf8(filled) THEN DBErr
             ELSE DBOk(DataBoxOf(dt.t, FALSE, 0, filled))

(***************************************************************************)
(* One DataBox and the calls made on it.  buffer holds the bytes of the    *)
(* last to_bytes and decoded the value of the last from_bytes; the other   *)
(* calls clear them.  DataBox::hash runs frame by                          *)
(* frame: a frame hashes the datatype and then the payload, and in the     *)
(* Null arm calls self.hash(state) again.  MaxStack is the number of       *)
(* frames the stack holds; the call that exceeds it ends the process.      *)
(***************************************************************************)
Int32s == {-2147483647 - 1, -256, -1, 0, 1, 255, 65536, 2147483647}

ByteStrings ==
    { Bytes(n, x) : n \in 0..MaxStrLen, x \in {97, 122} } \cup {<<97, 122>>}

ByteArrays == ByteStrings \cup {<<0>>, <<255>>, <<200, 7>>}

DataBoxes ==
    {Null}
      \cup { DataBoxOf("Boolean", b, 0, << >>) : b \in BOOLEAN }
      \cup { DataBoxOf("Integer", FALSE, n, << >>) : n \in Int32s }
      \cup { DataBoxOf("Long", FALSE, n, << >>) : n \in Int32s }
      \cup { DataBoxOf("Float", FALSE, n, << >>) : n \in {0, 1} }
      \cup { DataBoxOf("String", FALSE, 0, s) : s \in ByteStrings }
      \cup { DataBoxOf("ByteArray", FALSE, 0, s) : s \in ByteArrays }

DataBoxIdle ==
    UNCHANGED <<file, disk, master_page, header_pages, opened, allocated,
                page_io, nops, oob, lock_trace, hooks, dropped, byte_buffer>>

From ==
    /\ ~panicked
    /\ hash_frames = 0
    /\ data_box' \in DataBoxes
    /\ call' = [op |-> "from", a |-> 0, b |-> 0]
    /\ ret' = Ok(0)
    /\ repeated' = (call' = call)
    /\ buffer' = << >>
    /\ decoded' = Null
    /\ UNCHANGED <<panicked, hash_frames>>
    /\ DataBoxIdle

ToBytes ==
    /\ ~panicked
    /\ hash_frames = 0
    /\ call' = [op |-> "to_bytes", a |-> 0, b |-> 0]
    /\ buffer' = to_bytes(data_box)
    /\ decoded' = Null
    /\ ret' = Ok(0)
    /\ repeated' = (call' = call)
    /\ UNCHANGED <<data_box, panicked, hash_frames>>
    /\ DataBoxIdle

(* from_bytes(d.to_bytes(), d.datatype()) for the bytes of the last call *)
FromBytes ==
    /\ ~panicked
    /\ hash_frames = 0
    /\ call.op = "to_bytes"
    /\ datatype(data_box) # None
    /\ LET o == from_bytes(buffer, datatype(data_box).val)
       IN  /\ ret' = IF IsOk(o.ret) THEN Ok(0) ELSE o.ret
           /\ decoded' = IF IsOk(o.ret) THEN o.ret.val ELSE decoded
           /\ panicked' = o.panic
    /\ call' = [op |-> "from_bytes", a |-> 0, b |-> 0]
    /\ repeated' = (call' = call)
    /\ UNCHANGED <<data_box, hash_frames, buffer>>
    /\ DataBoxIdle

Hash ==
    /\ ~panicked
    /\ hash_frames = 0
    /\ hash_frames' = 1
    /\ call' = [op |-> "hash", a |-> 0, b |-> 0]
    /\ ret' = Ok(0)
    /\ repeated' = (call' = call)
    /\ buffer' = << >>
    /\ decoded' = Null
    /\ UNCHANGED <<data_box, panicked>>
    /\ DataBoxIdle

HashFrame ==
    /\ ~panicked
    /\ hash_frames > 0
    /\ IF data_box.variant = "Null"
       THEN IF hash_frames < MaxStack
            THEN /\ hash_frames' = hash_frames + 1
                 /\ UNCHANGED <<ret, panicked>>
            ELSE /\ ret' = Err("StackOverflow")
                 /\ panicked' = TRUE
                 /\ UNCHANGED hash_frames
       ELSE /\ hash_frames' = 0
            /\ UNCHANGED <<ret, panicked>>
    /\ UNCHANGED <<data_box, call, repeated, buffer, decoded>>
    /\ DataBoxIdle

NextDataBox ==
    \/ From
    \/ ToBytes
    \/ FromBytes
    \/ Hash
    \/ HashFrame

SpecDataBox == InitLayout /\ [][NextDataBox]_vars

SpecDataBoxFair == SpecDataBox /\ WF_vars(HashFrame)

(***************************************************************************)
(* C36: for every DataBox d other than Null and Float,                     *)
(* from_bytes(d.to_bytes(), d.datatype()) returns a value equal to d, a    *)
(* String or ByteArray with all its bytes.                                 *)
(***************************************************************************)
C36_BytesRoundTrip ==
    [][(call'.op = "from_bytes" /\ data_box.variant \notin {"Null", "Float"})
          => /\ ~panicked'
             /\ IsOk(ret')
             /\ decoded' = data_box
             /\ Len(decoded'.s) = Len(data_box.s)]_vars

(***************************************************************************)
(* C37: hashing a DataBox returns, for every variant, Null included: a     *)
(* call of hash is followed by its return after finitely many steps.       *)
(***************************************************************************)
C37_HashReturns ==
    (call.op = "hash" /\ hash_frames > 0)
        ~> (call.op = "hash" /\ hash_frames = 0 /\ ~panicked)

====
